---- MODULE Spec2Model ----
(***************************************************************************)
(* The OAuth popup handshake of the CredentialsInput component             *)
(* (autogpt_platform/frontend/src/components/integrations/                 *)
(* credentials-input.tsx).                                                 *)
(*                                                                         *)
(* One widget instance.  Every invocation of handleOAuthLogin is a         *)
(* "session" s: it owns the closure variables state_token, popup,          *)
(* controller, the handleMessage listener and the setTimeout callback.     *)
(* The React state (isOAuth2FlowInProgress, oAuthPopupController,          *)
(* oAuthError) is shared by all sessions of the widget.                    *)
(*                                                                         *)
(* The event loop is single threaded: every action below is one task of    *)
(* the loop (a click, a resolved promise continuation, a message event, a  *)
(* timer callback) run to its next await or to its end.                    *)
(***************************************************************************)
EXTENDS Integers, Sequences, FiniteSets, TLC

\* ------------------------------------------------------------------ bounds
\* number of inputs from outside explored: clicks on sign-in, "message"
\* events on window, changes of the provider
MaxInputs == 3

\* ------------------------------------------------------------ value domains
\* every click on sign-in starts a session
Sessions == 1..MaxInputs

\* the provider comes from useCredentials(schema, siblingInputs) and changes
\* when the schema or the sibling inputs change
Providers == {"github", "google"}

\* state tokens are nonces issued by the server, one per login attempt: the
\* login of session s gets token s; 0 is a string the server never issued
\* (and the value of state_token before api.oAuthLogin has resolved)
IssuedToken(s) == s
TokenValues == 0..MaxInputs

\* the credentials a provider may have saved: one of each type the dropdown
\* lists (lines 383-408); "cred1" is also an id oAuthCallback can return
SavedPool == {[id |-> "cred1", type |-> "oauth2"], [id |-> "k1", type |-> "api_key"],
              [id |-> "u1", type |-> "user_password"]}

Codes == {"c1", "c2"}
Texts == {"access_denied"}

\* what oAuthCallback can resolve with (id, title) ...
CallbackResults == {[id |-> "cred1", title |-> "u1"], [id |-> "cred2", title |-> "u2"]}
\* ... and what it can throw: an Error with a message, or any other value
Thrown == {[isError |-> TRUE, message |-> "bad code"], [isError |-> FALSE, value |-> 500]}

\* the message_type of an object posted to the window: "absent" when it has
\* no such field
MessageTypes == {"absent", "other", "oauth_popup_result"}

\* MessageEvent.data of the events the window can receive: anything at all
\* can be posted to the window, the popup being only one of the senders
Messages ==
    {[shape |-> "nonobject"]}
    \cup {[shape |-> "object", message_type |-> t,
           success |-> FALSE, message |-> x] : t \in MessageTypes, x \in Texts}
    \cup {[shape |-> "object", message_type |-> t,
           success |-> TRUE, code |-> c, state |-> k] :
               t \in MessageTypes, c \in Codes, k \in TokenValues}

\* the values of oAuthError
NoError == <<"null">>
FlowFailedError(text) == <<"OAuth flow failed: ", text>>
InvalidStateError == <<"Invalid state token received">>
CallbackError(text) == <<"Error in OAuth callback: ", text>>
TimedOutError == <<"OAuth flow timed out">>

VARIABLES
    provider,               \* credentials.provider of the current render
    isOAuth2FlowInProgress, \* React state; the waiting dialog is open iff TRUE
    oAuthPopupController,   \* React state: 0 (null) or the session whose controller it holds
    oAuthError,             \* React state: the error line shown under the input
    lastSelected,           \* argument of the latest onSelectCredentials call
    nSessions,              \* handleOAuthLogin invocations so far
    phase,                  \* per session: where handleOAuthLogin is
    sessProvider,           \* per session: `provider` captured by the closure
    state_token,            \* per session: state_token returned by api.oAuthLogin
    reason,                 \* per session: controller.signal.reason, "none" = not aborted
    listener,               \* per session: handleMessage is registered on window
    popupOpen,              \* per session: the popup window is open
    timers,                 \* armed setTimeout callbacks, in arming order
    pending,                \* per session: codes of the oAuthCallback calls in flight
    exchangeCalls,          \* per session: oAuthCallback calls made so far
    outcomes,               \* per session: what its callbacks reported, in order
    nInputs,                \* inputs from outside so far
    nMessages,              \* "message" events dispatched to a listener so far
    credentials,            \* useCredentials(): savedCredentials and the supports* flags
    hideIfSingleCredentialAvailable, \* prop of the component
    isAPICredentialsModalOpen,          \* React state
    isUserPasswordCredentialsModalOpen, \* React state
    uncaughtErrors          \* exceptions that left an event handler uncaught

vars == <<provider, isOAuth2FlowInProgress, oAuthPopupController, oAuthError,
          lastSelected, nSessions, phase, sessProvider, state_token, reason,
          listener, popupOpen, timers, pending, exchangeCalls, outcomes, nInputs,
          nMessages, credentials, hideIfSingleCredentialAvailable,
          isAPICredentialsModalOpen, isUserPasswordCredentialsModalOpen,
          uncaughtErrors>>

selectVars == <<credentials, hideIfSingleCredentialAvailable, isAPICredentialsModalOpen,
                isUserPasswordCredentialsModalOpen, uncaughtErrors>>

widgetVars == <<isOAuth2FlowInProgress, oAuthPopupController, oAuthError>>
sessionVars == <<phase, sessProvider, state_token, reason, listener, popupOpen,
                 pending, exchangeCalls, outcomes>>

NoSelection == [id |-> "none"]

\* the useState initial values (lines 126-135); no handleOAuthLogin call yet
HandshakeInit ==
    /\ provider \in Providers
    /\ isOAuth2FlowInProgress = FALSE
    /\ oAuthPopupController = 0
    /\ oAuthError = NoError
    /\ lastSelected = NoSelection
    /\ nSessions = 0
    /\ phase = [s \in Sessions |-> "notStarted"]
    /\ sessProvider = [s \in Sessions |-> "none"]
    /\ state_token = [s \in Sessions |-> 0]
    /\ reason = [s \in Sessions |-> "none"]
    /\ listener = [s \in Sessions |-> FALSE]
    /\ popupOpen = [s \in Sessions |-> FALSE]
    /\ timers = <<>>
    /\ pending = [s \in Sessions |-> <<>>]
    /\ exchangeCalls = [s \in Sessions |-> 0]
    /\ outcomes = [s \in Sessions |-> <<>>]
    /\ nInputs = 0
    /\ nMessages = 0
    /\ isAPICredentialsModalOpen = FALSE
    /\ isUserPasswordCredentialsModalOpen = FALSE
    /\ uncaughtErrors = {}

\* a provider that offers OAuth2 only and has no saved credentials yet: the
\* widget renders the "Sign in with" button (lines 321-330)
Init ==
    /\ HandshakeInit
    /\ credentials = [savedCredentials |-> {}, supportsApiKey |-> FALSE,
                      supportsOAuth2 |-> TRUE, supportsUserPassword |-> FALSE]
    /\ hideIfSingleCredentialAvailable = TRUE

\* ----------------------------------------------------------- AbortController
\* controller.abort(r) fires the abort event only on the first call: the
\* signal keeps its first reason, listeners registered with {signal} are
\* removed, and onabort runs (lines 202-206).
AbortFires(s) == phase[s] = "popupOpen" /\ reason[s] = "none"

\* an onabort handler that forgets popup.close()
abort_PopupLeftOpen(s, r) ==
    IF AbortFires(s)
    THEN /\ reason' = [reason EXCEPT ![s] = r]
         /\ listener' = [listener EXCEPT ![s] = FALSE]
         /\ UNCHANGED popupOpen
    ELSE UNCHANGED <<reason, listener, popupOpen>>

abort(s, r) ==
    IF AbortFires(s)
    THEN /\ reason' = [reason EXCEPT ![s] = r]
         /\ listener' = [listener EXCEPT ![s] = FALSE]
         \* onabort: popup.close()
         /\ popupOpen' = [popupOpen EXCEPT ![s] = FALSE]
    ELSE UNCHANGED <<reason, listener, popupOpen>>

\* ------------------------------------------------------------ handleOAuthLogin
\* The sign-in button / the "sign-in" option is clicked.  The waiting dialog
\* is modal, so the click is possible only while the dialog is closed.
\* handleOAuthLogin runs up to `await api.oAuthLogin(...)`.
StartLogin ==
    /\ credentials.supportsOAuth2
    /\ nInputs < MaxInputs
    /\ nInputs' = nInputs + 1
    /\ ~isOAuth2FlowInProgress
    /\ LET s == nSessions + 1 IN
        /\ nSessions' = s
        /\ oAuthError' = NoError
        /\ phase' = [phase EXCEPT ![s] = "awaitingLoginUrl"]
        /\ sessProvider' = [sessProvider EXCEPT ![s] = provider]
    /\ UNCHANGED <<provider, isOAuth2FlowInProgress, oAuthPopupController, lastSelected,
                   state_token, reason, listener, popupOpen, timers, pending,
                   exchangeCalls, outcomes>>
    /\ UNCHANGED nMessages
    /\ UNCHANGED selectVars

\* a handleOAuthLogin that shows the waiting dialog before the await
LoginRequestFails_FlagSetEarly(s) ==
    /\ phase[s] = "awaitingLoginUrl"
    /\ phase' = [phase EXCEPT ![s] = "loginFailed"]
    /\ isOAuth2FlowInProgress' = TRUE
    /\ UNCHANGED <<provider, oAuthPopupController, oAuthError, lastSelected, nSessions,
                   sessProvider, state_token, reason, listener, popupOpen, timers,
                   pending, exchangeCalls, outcomes, nInputs, nMessages>>
    /\ UNCHANGED selectVars

\* api.oAuthLogin rejects: the async function throws at line 187
LoginRequestFails(s) ==
    /\ phase[s] = "awaitingLoginUrl"
    /\ phase' = [phase EXCEPT ![s] = "loginFailed"]
    /\ UNCHANGED <<provider, widgetVars, lastSelected, nSessions, sessProvider,
                   state_token, reason, listener, popupOpen, timers, pending,
                   exchangeCalls, outcomes, nInputs>>
    /\ UNCHANGED nMessages
    /\ UNCHANGED selectVars

\* api.oAuthLogin resolves, window.open returns null: throw at line 195
PopupBlocked(s) ==
    /\ phase[s] = "awaitingLoginUrl"
    /\ state_token' = [state_token EXCEPT ![s] = IssuedToken(s)]
    /\ isOAuth2FlowInProgress' = TRUE
    /\ phase' = [phase EXCEPT ![s] = "popupBlocked"]
    /\ UNCHANGED <<provider, oAuthPopupController, oAuthError, lastSelected, nSessions,
                   sessProvider, reason, listener, popupOpen, timers, pending,
                   exchangeCalls, outcomes, nInputs>>
    /\ UNCHANGED nMessages
    /\ UNCHANGED selectVars

\* handleOAuthLogin without the setTimeout of lines 263-271
OpenPopup_NoTimer(s) ==
    /\ phase[s] = "awaitingLoginUrl"
    /\ state_token' = [state_token EXCEPT ![s] = IssuedToken(s)]
    /\ isOAuth2FlowInProgress' = TRUE
    /\ popupOpen' = [popupOpen EXCEPT ![s] = TRUE]
    /\ oAuthPopupController' = s
    /\ listener' = [listener EXCEPT ![s] = TRUE]
    /\ phase' = [phase EXCEPT ![s] = "popupOpen"]
    /\ UNCHANGED <<provider, oAuthError, lastSelected, nSessions, sessProvider, reason,
                   pending, exchangeCalls, outcomes, nInputs, timers>>
    /\ UNCHANGED nMessages
    /\ UNCHANGED selectVars

\* api.oAuthLogin resolves, window.open returns a window: lines 191-271
OpenPopup(s) ==
    /\ phase[s] = "awaitingLoginUrl"
    /\ state_token' = [state_token EXCEPT ![s] = IssuedToken(s)]
    /\ isOAuth2FlowInProgress' = TRUE
    /\ popupOpen' = [popupOpen EXCEPT ![s] = TRUE]
    /\ oAuthPopupController' = s
    /\ listener' = [listener EXCEPT ![s] = TRUE]
    /\ timers' = Append(timers, s)
    /\ phase' = [phase EXCEPT ![s] = "popupOpen"]
    /\ UNCHANGED <<provider, oAuthError, lastSelected, nSessions, sessProvider, reason,
                   pending, exchangeCalls, outcomes, nInputs>>
    /\ UNCHANGED nMessages
    /\ UNCHANGED selectVars

\* --------------------------------------------------------------- handleMessage
\* a discriminator test that only looks at typeof e.data
IsPopupResult_AnyObject(m) == m.shape = "object"

\* lines 210-214: the discriminator test
IsPopupResult(m) ==
    /\ m.shape = "object"
    /\ m.message_type # "absent"
    /\ m.message_type = "oauth_popup_result"

\* handleMessage without the comparison of lines 226-231
handleMessage_NoStateCheck(s, m) ==
    IF ~IsPopupResult(m) THEN "ignored"
    ELSE IF ~m.success THEN "failed"
    ELSE "exchange"

\* The branch the synchronous part of session s's handleMessage takes on
\* e.data = m (lines 210-235).
handleMessage(s, m) ==
    IF ~IsPopupResult(m) THEN "ignored"
    ELSE IF ~m.success THEN "failed"
    ELSE IF m.state # state_token[s] THEN "mismatch"
    ELSE "exchange"

\* what session s's listener does with m; "none" when it is not registered
Handled(s, m) == IF listener[s] THEN handleMessage(s, m) ELSE "none"

\* One "message" event on window: every registered handleMessage runs, in
\* registration order, up to its return or to `await oAuthCallback(...)`.
\* (No handler aborts a controller before its await, so every listener
\* registered when the event is dispatched runs; the React state writes of
\* the handlers that run do not depend on their order: a failure message
\* makes all of them write the same values, a success message makes only
\* the mismatching ones write, all the same values.)
DispatchMessage(m) ==
    /\ nInputs < MaxInputs
    /\ \E s \in Sessions : listener[s]
    /\ nInputs' = nInputs + 1
    /\ outcomes' = [s \in Sessions |->
            IF Handled(s, m) \in {"failed", "mismatch"}
            THEN Append(outcomes[s], Handled(s, m))
            ELSE outcomes[s]]
    /\ pending' = [s \in Sessions |->
            IF Handled(s, m) = "exchange" THEN Append(pending[s], m.code) ELSE pending[s]]
    /\ exchangeCalls' = [s \in Sessions |->
            IF Handled(s, m) = "exchange" THEN exchangeCalls[s] + 1 ELSE exchangeCalls[s]]
    /\ oAuthError' =
            IF \E s \in Sessions : Handled(s, m) = "failed" THEN FlowFailedError(m.message)
            ELSE IF \E s \in Sessions : Handled(s, m) = "mismatch" THEN InvalidStateError
            ELSE oAuthError
    /\ isOAuth2FlowInProgress' =
            IF \E s \in Sessions : Handled(s, m) \in {"failed", "mismatch"} THEN FALSE
            ELSE isOAuth2FlowInProgress
    /\ UNCHANGED <<provider, oAuthPopupController, lastSelected, nSessions, phase,
                   sessProvider, state_token, reason, listener, popupOpen, timers>>
    /\ nMessages' = nMessages + 1
    /\ UNCHANGED selectVars

\* the argument of onSelectCredentials built from the provider of the
\* current render instead of the one the closure captured
CredentialsMeta_CurrentProvider(s, c) ==
    [id |-> c.id, type |-> "oauth2", title |-> c.title, provider |-> provider]

\* lines 237-242: the argument of onSelectCredentials
CredentialsMeta(s, c) ==
    [id |-> c.id, type |-> "oauth2", title |-> c.title, provider |-> sessProvider[s]]

\* an error line that drops what was thrown
ErrorText_Generic(e) == "unknown error"

\* lines 247-249: error instanceof Error ? error.message : String(error)
ErrorText(e) == IF e.isError THEN e.message ELSE ToString(e.value)

RemoveAt(q, i) == SubSeq(q, 1, i - 1) \o SubSeq(q, i + 1, Len(q))

\* lines 251-255, the finally block of handleMessage
Finally(s) ==
    /\ isOAuth2FlowInProgress' = FALSE
    /\ abort(s, "success")

\* the i-th oAuthCallback call in flight of session s resolves with c:
\* lines 236-242 and the finally block
ExchangeResolves(s, i, c) ==
    /\ i \in 1..Len(pending[s])
    /\ pending' = [pending EXCEPT ![s] = RemoveAt(pending[s], i)]
    /\ lastSelected' = CredentialsMeta(s, c)
    /\ outcomes' = [outcomes EXCEPT ![s] = Append(outcomes[s], "credential")]
    /\ Finally(s)
    /\ UNCHANGED <<provider, oAuthPopupController, oAuthError, nSessions, phase,
                   sessProvider, state_token, timers, exchangeCalls, nInputs>>
    /\ UNCHANGED nMessages
    /\ UNCHANGED selectVars

\* the i-th oAuthCallback call in flight of session s rejects with e:
\* lines 243-250 and the finally block
ExchangeRejects(s, i, e) ==
    /\ i \in 1..Len(pending[s])
    /\ pending' = [pending EXCEPT ![s] = RemoveAt(pending[s], i)]
    /\ oAuthError' = CallbackError(ErrorText(e))
    /\ outcomes' = [outcomes EXCEPT ![s] = Append(outcomes[s], "exchangeError")]
    /\ Finally(s)
    /\ UNCHANGED <<provider, oAuthPopupController, lastSelected, nSessions, phase,
                   sessProvider, state_token, timers, exchangeCalls, nInputs>>
    /\ UNCHANGED nMessages
    /\ UNCHANGED selectVars

\* ------------------------------------------------------ the setTimeout callback
\* lines 263-271.  Every session arms the same delay and nothing clears the
\* timer, so the callbacks run in arming order, each exactly once.
TimerFires ==
    /\ timers # <<>>
    /\ LET s == Head(timers) IN
        /\ abort(s, "timeout")
        /\ outcomes' = [outcomes EXCEPT ![s] = Append(outcomes[s], "timeout")]
    /\ timers' = Tail(timers)
    /\ isOAuth2FlowInProgress' = FALSE
    /\ oAuthError' = TimedOutError
    /\ UNCHANGED <<provider, oAuthPopupController, lastSelected, nSessions, phase,
                   sessProvider, state_token, pending, exchangeCalls, nInputs>>
    /\ UNCHANGED nMessages
    /\ UNCHANGED selectVars

\* ------------------------------------------------------ OAuth2FlowWaitingModal
\* The user dismisses the waiting dialog (lines 704-708), which is possible
\* only while it is open; onClose is oAuthPopupController?.abort("canceled").
CloseDialog ==
    /\ isOAuth2FlowInProgress
    /\ IF oAuthPopupController # 0
       THEN /\ abort(oAuthPopupController, "canceled")
            \* onabort: setOAuth2FlowInProgress(false)
            /\ isOAuth2FlowInProgress' =
                   IF AbortFires(oAuthPopupController) THEN FALSE ELSE isOAuth2FlowInProgress
       ELSE UNCHANGED <<reason, listener, popupOpen, isOAuth2FlowInProgress>>
    /\ UNCHANGED <<provider, oAuthPopupController, oAuthError, lastSelected, nSessions,
                   phase, sessProvider, state_token, timers, pending, exchangeCalls,
                   outcomes, nInputs>>
    /\ UNCHANGED nMessages
    /\ UNCHANGED selectVars

\* ---------------------------------------------------------------- environment
\* a re-render with another schema / other sibling inputs: useCredentials
\* returns another provider
ChangeProvider(p) ==
    /\ nInputs < MaxInputs
    /\ nInputs' = nInputs + 1
    /\ p # provider
    /\ provider' = p
    /\ UNCHANGED <<widgetVars, lastSelected, nSessions, sessionVars, timers>>
    /\ UNCHANGED nMessages
    /\ UNCHANGED selectVars

Next ==
    \/ StartLogin
    \/ \E s \in Sessions : LoginRequestFails(s)
    \/ \E s \in Sessions : PopupBlocked(s)
    \/ \E s \in Sessions : OpenPopup(s)
    \/ \E m \in Messages : DispatchMessage(m)
    \/ \E s \in Sessions : \E i \in 1..MaxInputs : \E c \in CallbackResults :
            ExchangeResolves(s, i, c)
    \/ \E s \in Sessions : \E i \in 1..MaxInputs : \E e \in Thrown :
            ExchangeRejects(s, i, e)
    \/ TimerFires
    \/ CloseDialog
    \/ \E p \in Providers : ChangeProvider(p)

Spec == Init /\ [][Next]_vars

\* The event loop runs every task that is ready: an armed timer eventually
\* fires; an oAuthCallback call in flight eventually resolves or rejects.
ExchangeReturns(s) ==
    \E i \in 1..MaxInputs :
        \/ \E c \in CallbackResults : ExchangeResolves(s, i, c)
        \/ \E e \in Thrown : ExchangeRejects(s, i, e)

FairSpec ==
    /\ Spec
    /\ WF_vars(TimerFires)
    /\ \A s \in Sessions : WF_vars(ExchangeReturns(s))

\* ------------------------------------------------------ the credential select
\* What useCredentials() can return for a provider (lines 175-183).
InitSelect ==
    /\ HandshakeInit
    /\ credentials \in [savedCredentials : SUBSET SavedPool, supportsApiKey : BOOLEAN,
                         supportsOAuth2 : BOOLEAN, supportsUserPassword : BOOLEAN]
    /\ hideIfSingleCredentialAvailable \in BOOLEAN

\* lines 151-158
singleCredential ==
    IF Cardinality(credentials.savedCredentials) = 1
    THEN CHOOSE c \in credentials.savedCredentials : TRUE
    ELSE NoSelection

\* lines 167-173: the component renders
Rendered == ~(singleCredential # NoSelection /\ hideIfSingleCredentialAvailable)

\* the dialogs are modal: no control under them can be clicked
NoDialogOpen ==
    /\ ~isOAuth2FlowInProgress
    /\ ~isAPICredentialsModalOpen
    /\ ~isUserPasswordCredentialsModalOpen

\* lines 378-429: the values of the SelectItems rendered
SelectItems ==
    {c.id : c \in {d \in credentials.savedCredentials :
                       d.type \in {"oauth2", "api_key", "user_password"}}}
    \cup (IF credentials.supportsOAuth2 THEN {"sign-in"} ELSE {})
    \cup (IF credentials.supportsApiKey THEN {"add-api-key"} ELSE {})
    \cup (IF credentials.supportsUserPassword THEN {"add-user-password"} ELSE {})

\* every value a SelectItem can carry
DropdownValues ==
    {c.id : c \in SavedPool} \cup {"sign-in", "add-api-key", "add-user-password"}

\* lines 354-371, called by the Select with the value of the item picked
handleValueChange(newValue) ==
    /\ Rendered
    /\ credentials.savedCredentials # {}
    /\ NoDialogOpen
    /\ newValue \in SelectItems
    /\ IF newValue = "sign-in"
       THEN StartLogin
       ELSE /\ nInputs < MaxInputs
            /\ nInputs' = nInputs + 1
            /\ IF newValue = "add-api-key"
               THEN /\ isAPICredentialsModalOpen' = TRUE
                    /\ UNCHANGED <<lastSelected, uncaughtErrors>>
               ELSE LET found == {c \in credentials.savedCredentials : c.id = newValue} IN
                    \* find(...)! is undefined when no id matches, and
                    \* selectedCreds.id then throws a TypeError
                    IF found = {}
                    THEN /\ uncaughtErrors' = uncaughtErrors \cup {"TypeError"}
                         /\ UNCHANGED <<lastSelected, isAPICredentialsModalOpen>>
                    ELSE LET selectedCreds == CHOOSE c \in found : TRUE IN
                         /\ lastSelected' = [id |-> selectedCreds.id,
                                             type |-> selectedCreds.type,
                                             provider |-> provider]
                         /\ UNCHANGED <<isAPICredentialsModalOpen, uncaughtErrors>>
            /\ UNCHANGED <<provider, widgetVars, nSessions, sessionVars, timers, nMessages,
                           credentials, hideIfSingleCredentialAvailable,
                           isUserPasswordCredentialsModalOpen>>

\* line 335: the "Enter API key" button of the view without saved credentials
EnterApiKeyClick ==
    /\ Rendered
    /\ credentials.savedCredentials = {}
    /\ credentials.supportsApiKey
    /\ NoDialogOpen
    /\ nInputs < MaxInputs
    /\ nInputs' = nInputs + 1
    /\ isAPICredentialsModalOpen' = TRUE
    /\ UNCHANGED <<provider, widgetVars, lastSelected, nSessions, sessionVars, timers,
                   nMessages, credentials, hideIfSingleCredentialAvailable,
                   isUserPasswordCredentialsModalOpen, uncaughtErrors>>

\* line 341: the "Enter username and password" button of the same view
EnterUserPasswordClick ==
    /\ Rendered
    /\ credentials.savedCredentials = {}
    /\ credentials.supportsUserPassword
    /\ NoDialogOpen
    /\ nInputs < MaxInputs
    /\ nInputs' = nInputs + 1
    /\ isUserPasswordCredentialsModalOpen' = TRUE
    /\ UNCHANGED <<provider, widgetVars, lastSelected, nSessions, sessionVars, timers,
                   nMessages, credentials, hideIfSingleCredentialAvailable,
                   isAPICredentialsModalOpen, uncaughtErrors>>

\* line 281: onClose of the APIKeyCredentialsModal
CloseApiKeyModal ==
    /\ credentials.supportsApiKey
    /\ isAPICredentialsModalOpen
    /\ isAPICredentialsModalOpen' = FALSE
    /\ UNCHANGED <<provider, widgetVars, lastSelected, nSessions, sessionVars, timers,
                   nInputs, nMessages, credentials, hideIfSingleCredentialAvailable,
                   isUserPasswordCredentialsModalOpen, uncaughtErrors>>

\* line 300: onClose of the UserPasswordCredentialsModal
CloseUserPasswordModal ==
    /\ credentials.supportsUserPassword
    /\ isUserPasswordCredentialsModalOpen
    /\ isUserPasswordCredentialsModalOpen' = FALSE
    /\ UNCHANGED <<provider, widgetVars, lastSelected, nSessions, sessionVars, timers,
                   nInputs, nMessages, credentials, hideIfSingleCredentialAvailable,
                   isAPICredentialsModalOpen, uncaughtErrors>>

NextSelect ==
    \/ \E v \in DropdownValues : handleValueChange(v)
    \/ EnterApiKeyClick
    \/ EnterUserPasswordClick
    \/ CloseApiKeyModal
    \/ CloseUserPasswordModal

SpecSelect == InitSelect /\ [][NextSelect]_vars


\* --------------------------------------------------- the selection effects
\* The selectedCredentials prop: the parent passes back the value it last
\* received through onSelectCredentials, undefined being NoSelection.
selectedCredentials == lastSelected

\* a membership test that compares the type instead of the id
IsSaved_ByType(sel) == \E c \in credentials.savedCredentials : c.type = sel.type

\* line 145: credentials.savedCredentials.some((c) => c.id === selectedCredentials.id)
IsSaved(sel) == \E c \in credentials.savedCredentials : c.id = sel.id

\* lines 141-149: deselect credentials that do not exist
DeselectIfMissing ==
    /\ selectedCredentials # NoSelection
    /\ ~IsSaved(selectedCredentials)
    /\ lastSelected' = NoSelection
    /\ UNCHANGED <<provider, widgetVars, nSessions, sessionVars, timers, nInputs,
                   nMessages, selectVars>>

\* lines 161-165: if only one credential is available, select it
AutoSelectSingle ==
    /\ singleCredential # NoSelection
    /\ selectedCredentials = NoSelection
    /\ lastSelected' = singleCredential
    /\ UNCHANGED <<provider, widgetVars, nSessions, sessionVars, timers, nInputs,
                   nMessages, selectVars>>

\* line 138: useCredentials delivers another list of saved credentials (one
\* was created, one was deleted, the provider was changed)
SavedCredentialsChange(saved) ==
    /\ nInputs < MaxInputs
    /\ nInputs' = nInputs + 1
    /\ saved # credentials.savedCredentials
    /\ credentials' = [credentials EXCEPT !.savedCredentials = saved]
    /\ UNCHANGED <<provider, widgetVars, lastSelected, nSessions, sessionVars, timers,
                   nMessages, hideIfSingleCredentialAvailable,
                   isAPICredentialsModalOpen, isUserPasswordCredentialsModalOpen,
                   uncaughtErrors>>

\* line 326: the "Sign in with" button of the view without saved credentials
SignInClick ==
    /\ Rendered
    /\ credentials.savedCredentials = {}
    /\ NoDialogOpen
    /\ StartLogin

\* lines 282-285 with 469-481: the API key dialog created a credential
ApiKeyCreated ==
    /\ credentials.supportsApiKey
    /\ isAPICredentialsModalOpen
    /\ lastSelected' = [provider |-> provider, id |-> "k1", type |-> "api_key",
                        title |-> "key"]
    /\ isAPICredentialsModalOpen' = FALSE
    /\ UNCHANGED <<provider, widgetVars, nSessions, sessionVars, timers, nInputs,
                   nMessages, credentials, hideIfSingleCredentialAvailable,
                   isUserPasswordCredentialsModalOpen, uncaughtErrors>>

\* lines 301-304 with 608-620: the user-password dialog created a credential
UserPasswordCreated ==
    /\ credentials.supportsUserPassword
    /\ isUserPasswordCredentialsModalOpen
    /\ lastSelected' = [provider |-> provider, id |-> "u1", type |-> "user_password",
                        title |-> "login"]
    /\ isUserPasswordCredentialsModalOpen' = FALSE
    /\ UNCHANGED <<provider, widgetVars, nSessions, sessionVars, timers, nInputs,
                   nMessages, credentials, hideIfSingleCredentialAvailable,
                   isAPICredentialsModalOpen, uncaughtErrors>>

\* The selection effects next to every handler that calls
\* onSelectCredentials or opens and closes a dialog.  The setTimeout callback
\* writes neither the selection nor the saved list and is explored in Spec.
\* Init: a provider that offers the three credential types, with any saved list.
InitEffects ==
    /\ HandshakeInit
    /\ credentials \in [savedCredentials : SUBSET SavedPool, supportsApiKey : {TRUE},
                         supportsOAuth2 : {TRUE}, supportsUserPassword : {TRUE}]
    /\ hideIfSingleCredentialAvailable \in BOOLEAN

NextEffects ==
    \/ DeselectIfMissing
    \/ AutoSelectSingle
    \/ \E saved \in SUBSET SavedPool : SavedCredentialsChange(saved)
    \/ \E v \in DropdownValues : handleValueChange(v)
    \/ SignInClick
    \/ EnterApiKeyClick
    \/ EnterUserPasswordClick
    \/ CloseApiKeyModal
    \/ CloseUserPasswordModal
    \/ ApiKeyCreated
    \/ UserPasswordCreated
    \/ \E s \in Sessions : LoginRequestFails(s)
    \/ \E s \in Sessions : PopupBlocked(s)
    \/ \E s \in Sessions : OpenPopup(s)
    \/ \E m \in Messages : DispatchMessage(m)
    \/ \E s \in Sessions : \E i \in 1..MaxInputs : \E c \in CallbackResults :
            ExchangeResolves(s, i, c)
    \/ \E s \in Sessions : \E i \in 1..MaxInputs : \E e \in Thrown :
            ExchangeRejects(s, i, e)
    \/ CloseDialog

\* React runs an effect after every render in which its dependencies changed
SpecEffects ==
    /\ InitEffects
    /\ [][NextEffects]_vars
    /\ WF_vars(DeselectIfMissing)
    /\ WF_vars(AutoSelectSingle)

\* ======================================================================
\* Properties
\* ======================================================================
Has(s, k) == \E i \in 1..Len(outcomes[s]) : outcomes[s][i] = k

\* a success message, and one whose state is not session s's state_token
IsSuccess(m) == IsPopupResult(m) /\ m.success
Mismatches(s, m) == IsSuccess(m) /\ m.state # state_token[s]
Matches(s, m) == IsSuccess(m) /\ m.state = state_token[s]

\* C1: for every session with a registered listener and every success
\* message whose state differs from that session's state_token, the
\* dispatch of that message makes the session start no oAuthCallback call,
\* calls onSelectCredentials for nobody, and leaves "Invalid state token
\* received" as the error shown.
C1_MismatchStep ==
    \A m \in Messages : \A s \in Sessions :
        (listener[s] /\ Mismatches(s, m) /\ DispatchMessage(m)) =>
            /\ exchangeCalls'[s] = exchangeCalls[s]
            /\ pending'[s] = pending[s]
            /\ lastSelected' = lastSelected
            /\ outcomes'[s] = Append(outcomes[s], "mismatch")
            /\ oAuthError' = InvalidStateError

\* C1: every step of every behaviour satisfies C1_MismatchStep
C1_MismatchNeverExchanges == [][C1_MismatchStep]_vars

\* a session has handled a mismatching success message: it reported the
\* state-mismatch error and has made no exchange call
C1_Witness ==
    \E s \in Sessions :
        /\ Has(s, "mismatch")
        /\ exchangeCalls[s] = 0
        /\ oAuthError = InvalidStateError
        /\ lastSelected = NoSelection

\* C2 as claimed: when an oAuthCallback call of session s resolves with
\* {id, title}, onSelectCredentials receives exactly {id, type "oauth2",
\* title, provider of the login}, the in-progress flag is cleared, the popup
\* is closed and the session's controller is aborted with reason "success".
C2_ClaimedStep ==
    \A s \in Sessions : \A i \in 1..MaxInputs : \A c \in CallbackResults :
        ExchangeResolves(s, i, c) =>
            /\ lastSelected' = [id |-> c.id, type |-> "oauth2", title |-> c.title,
                                provider |-> sessProvider[s]]
            /\ ~isOAuth2FlowInProgress'
            /\ ~popupOpen'[s]
            /\ ~listener'[s]
            /\ reason'[s] = "success"

C2_AmendedStep ==
    \A s \in Sessions : \A i \in 1..MaxInputs : \A c \in CallbackResults :
        ExchangeResolves(s, i, c) =>
            /\ lastSelected' = [id |-> c.id, type |-> "oauth2", title |-> c.title,
                                provider |-> sessProvider[s]]
            /\ ~isOAuth2FlowInProgress'
            /\ ~popupOpen'[s]
            /\ ~listener'[s]
            /\ reason'[s] = (IF reason[s] = "none" THEN "success" ELSE reason[s])

Active(s) == phase[s] = "popupOpen" /\ reason[s] = "none" /\ listener[s] /\ popupOpen[s]
TimerArmed(s) == \E i \in 1..Len(timers) : timers[i] = s
\* resolved, failed, cancelled or timed out: the session reported an
\* outcome or its controller is aborted
Ended(s) == outcomes[s] # <<>> \/ reason[s] # "none"

\* C3: in every reachable state at most one session is active (an
\* un-aborted controller with a registered message listener and an open
\* popup).
C3_AtMostOneActiveSession ==
    Cardinality({s \in Sessions : Active(s)}) <= 1

\* C4: once a session has reached a terminal state, the dispatch of a
\* success message carrying its state_token makes it start no exchange call
\* and report nothing (no credential, no error).
C4_LateMessageStep ==
    \A m \in Messages : \A s \in Sessions :
        (Ended(s) /\ Matches(s, m) /\ DispatchMessage(m)) =>
            /\ exchangeCalls'[s] = exchangeCalls[s]
            /\ pending'[s] = pending[s]
            /\ outcomes'[s] = outcomes[s]

\* C4: every step satisfies C4_LateMessageStep
C4_NoEffectAfterTerminal == [][C4_LateMessageStep]_vars

\* C5: once the waiting dialog was closed on a session that was waiting for
\* its message (no exchange call made), its popup is closed, it has reported
\* no credential, and from then on it reports nothing more, no error either.
C5_AfterCancelStep ==
    \A s \in Sessions :
        (reason[s] = "canceled" /\ exchangeCalls[s] = 0) =>
            /\ ~popupOpen[s]
            /\ ~Has(s, "credential")
            /\ outcomes'[s] = outcomes[s]

\* C5: every step satisfies C5_AfterCancelStep
C5_CancelIsSilent == [][C5_AfterCancelStep]_vars

\* C6: a session never reports two different outcomes to the caller:
\* not a credential and an error, not two different errors.
C6_AtMostOneOutcome ==
    \A s \in Sessions :
        Cardinality({outcomes[s][i] : i \in 1..Len(outcomes[s])}) <= 1

\* C7: no reachable state has an ended session with a still-open popup, a
\* still-registered listener or a still-armed timer.
C7_EndedIsTornDown ==
    \A s \in Sessions :
        Ended(s) => ~popupOpen[s] /\ ~listener[s] /\ ~TimerArmed(s)

\* C8: a session that has handled a mismatching success message is
\* cancelled (controller aborted, popup closed, listener removed), and it
\* reports no credential after the mismatch.
C8_MismatchIsTerminal ==
    \A s \in Sessions :
        Has(s, "mismatch") =>
            /\ reason[s] # "none"
            /\ ~popupOpen[s]
            /\ ~listener[s]
            /\ \A i, j \in 1..Len(outcomes[s]) :
                   (i < j /\ outcomes[s][i] = "mismatch") => outcomes[s][j] # "credential"

\* C9: the dispatch of a failure message to a session with a registered
\* listener cancels that session (controller aborted, popup closed, listener
\* removed), reports "OAuth flow failed: <message>" and no credential.
C9_FailureStep ==
    \A m \in Messages : \A s \in Sessions :
        (listener[s] /\ IsPopupResult(m) /\ ~m.success /\ DispatchMessage(m)) =>
            /\ oAuthError' = FlowFailedError(m.message)
            /\ outcomes'[s] = Append(outcomes[s], "failed")
            /\ lastSelected' = lastSelected
            /\ reason'[s] # "none"
            /\ ~popupOpen'[s]
            /\ ~listener'[s]

\* C9: every step satisfies C9_FailureStep
C9_FailureCancelsSession == [][C9_FailureStep]_vars

\* C10: within one session oAuthCallback is called at most once.
C10_ExchangeAtMostOnce ==
    \A s \in Sessions : exchangeCalls[s] <= 1

\* number of outcomes of kind k in the sequence q
CountIn(q, k) == Cardinality({i \in 1..Len(q) : q[i] = k})

\* C11: from the moment a session's controller is aborted by the user's
\* cancel or by the timeout, that session reports no credential and no
\* exchange error: the result of a call still in flight is ignored.
C11_AfterCancelStep ==
    \A s \in Sessions :
        reason[s] \in {"canceled", "timeout"} =>
            /\ CountIn(outcomes'[s], "credential") = CountIn(outcomes[s], "credential")
            /\ CountIn(outcomes'[s], "exchangeError") = CountIn(outcomes[s], "exchangeError")

\* C11: every step satisfies C11_AfterCancelStep
C11_InFlightResultIgnored == [][C11_AfterCancelStep]_vars

\* C12: when the timer of a session fires for which no message has been
\* acted upon (nothing reported, no exchange call, controller not aborted),
\* the controller is aborted with reason "timeout", the popup is closed, the
\* listener removed, the in-progress flag cleared, "OAuth flow timed out" is
\* the error shown and no credential is reported.
C12_TimeoutStep ==
    (timers # <<>> /\ TimerFires) =>
        LET s == Head(timers) IN
        (reason[s] = "none" /\ outcomes[s] = <<>> /\ exchangeCalls[s] = 0) =>
            /\ reason'[s] = "timeout"
            /\ ~popupOpen'[s]
            /\ ~listener'[s]
            /\ ~isOAuth2FlowInProgress'
            /\ oAuthError' = TimedOutError
            /\ outcomes'[s] = <<"timeout">>
            /\ lastSelected' = lastSelected

\* C12: every step satisfies C12_TimeoutStep
C12_TimeoutCancelsSession == [][C12_TimeoutStep]_vars

\* a session that timed out without having acted on any message
C12_Witness ==
    \E s \in Sessions :
        /\ outcomes[s] = <<"timeout">>
        /\ reason[s] = "timeout"
        /\ exchangeCalls[s] = 0
        /\ ~popupOpen[s]
        /\ ~isOAuth2FlowInProgress
        /\ oAuthError = TimedOutError

\* C13: under FairSpec every session that reaches PopupOpen eventually
\* reaches a terminal state (its controller is aborted, its popup closed,
\* its listener removed) with the in-progress flag cleared; no session stays
\* in PopupOpen forever, also not after a failure or mismatch message.
C13_EverySessionEnds ==
    \A s \in Sessions :
        (phase[s] = "popupOpen" /\ reason[s] = "none") ~>
            (reason[s] # "none" /\ ~popupOpen[s] /\ ~listener[s] /\ ~isOAuth2FlowInProgress)

\* a session that stayed open after a failure message and was ended by its
\* timer
C13_Witness ==
    \E s \in Sessions :
        /\ outcomes[s] = <<"failed", "timeout">>
        /\ reason[s] = "timeout"
        /\ ~popupOpen[s]
        /\ ~isOAuth2FlowInProgress

\* C14: the dispatch of a message without the discriminator tag (not an
\* object, no message_type, another message_type), whatever its other
\* fields, leaves the in-progress flag, the error, the controller, the
\* selection and every session (popup, listener, timer, calls) as they were.
C14_UntaggedStep ==
    \A m \in Messages :
        (~(m.shape = "object" /\ m.message_type = "oauth_popup_result")
         /\ DispatchMessage(m)) =>
            UNCHANGED <<provider, widgetVars, lastSelected, nSessions, sessionVars, timers>>

\* C14: every step satisfies C14_UntaggedStep
C14_UntaggedMessageIgnored == [][C14_UntaggedStep]_vars

\* a message was dispatched to a live listener and nothing came of it: the
\* sign-in is still in progress, nothing reported, no call made
C14_Witness ==
    /\ nMessages = 1
    /\ \E s \in Sessions : listener[s]
    /\ \A s \in Sessions : outcomes[s] = <<>> /\ exchangeCalls[s] = 0
    /\ isOAuth2FlowInProgress
    /\ oAuthError = NoError

\* C15: when window.open returns no handle the session never starts: no
\* listener, no timer, no controller stored, no popup, and the sign-in is
\* not shown as in progress.
C15_PopupBlockedStep ==
    \A s \in Sessions :
        PopupBlocked(s) =>
            /\ ~listener'[s]
            /\ ~TimerArmed(s)'
            /\ ~popupOpen'[s]
            /\ oAuthPopupController' # s
            /\ ~isOAuth2FlowInProgress'

\* C15: every step satisfies C15_PopupBlockedStep
C15_PopupBlockedBackToIdle == [][C15_PopupBlockedStep]_vars

\* C16: when an oAuthCallback call of session s rejects, the error shown is
\* "Error in OAuth callback: " followed by the message of the Error thrown
\* (or the string form of any other value thrown), no credential is
\* reported, the in-progress flag is cleared and the controller is aborted
\* with the popup closed and the listener removed.
C16_ExchangeRejectStep ==
    \A s \in Sessions : \A i \in 1..MaxInputs : \A e \in Thrown :
        ExchangeRejects(s, i, e) =>
            /\ oAuthError' = <<"Error in OAuth callback: ",
                               IF e.isError THEN e.message ELSE ToString(e.value)>>
            /\ lastSelected' = lastSelected
            /\ CountIn(outcomes'[s], "credential") = CountIn(outcomes[s], "credential")
            /\ ~isOAuth2FlowInProgress'
            /\ reason'[s] # "none"
            /\ ~popupOpen'[s]
            /\ ~listener'[s]

\* C16: every step satisfies C16_ExchangeRejectStep
C16_ExchangeFailureEndsSession == [][C16_ExchangeRejectStep]_vars

\* the exchange of a session was rejected with a non-Error value: the error
\* line carries its string form, the session is aborted
C16_Witness ==
    \E s \in Sessions :
        /\ outcomes[s] = <<"exchangeError">>
        /\ oAuthError = CallbackError("500")
        /\ reason[s] = "success"
        /\ ~popupOpen[s]
        /\ ~listener[s]
        /\ ~isOAuth2FlowInProgress
        /\ lastSelected = NoSelection

\* C17: when api.oAuthLogin rejects, handleOAuthLogin ends there: the step
\* writes no React state (in-progress flag, controller, error) and the
\* session has no popup, no listener, no timer and no state_token, then and
\* ever after.
C17_LoginFailedStep ==
    \A s \in Sessions :
        /\ LoginRequestFails(s) =>
              /\ phase'[s] = "loginFailed"
              /\ UNCHANGED <<isOAuth2FlowInProgress, oAuthPopupController, oAuthError,
                             lastSelected, popupOpen, listener, timers>>
        /\ phase[s] = "loginFailed" =>
              /\ ~popupOpen[s] /\ ~listener[s] /\ ~TimerArmed(s)
              /\ state_token[s] = 0
              /\ oAuthPopupController # s
              /\ outcomes[s] = <<>>
              /\ phase'[s] = "loginFailed"

\* C17: every step satisfies C17_LoginFailedStep
C17_LoginFailureBeforeSession == [][C17_LoginFailedStep]_vars

\* a login request failed and the waiting dialog was never shown
C17_Witness ==
    /\ nSessions = 1
    /\ phase[1] = "loginFailed"
    /\ ~isOAuth2FlowInProgress
    /\ oAuthPopupController = 0
    /\ timers = <<>>

\* C18: while a later session t is live and shown as in progress, the timer
\* of an earlier session s whose controller is already aborted leaves the
\* in-progress flag set, sets no error, and leaves t's popup open and t's
\* listener registered.
C18_EarlierTimerStep ==
    \A s \in Sessions : \A t \in Sessions :
        ( /\ s < t
          /\ reason[s] # "none"
          /\ Active(t)
          /\ isOAuth2FlowInProgress
          /\ timers # <<>>
          /\ Head(timers) = s
          /\ TimerFires ) =>
            /\ isOAuth2FlowInProgress'
            /\ oAuthError' = oAuthError
            /\ popupOpen'[t]
            /\ listener'[t]

\* C18: every step satisfies C18_EarlierTimerStep
C18_EarlierSessionIsolated == [][C18_EarlierTimerStep]_vars

\* C19: in every reachable state the in-progress flag is set exactly when
\* some session is live, and while it is set oAuthPopupController is that
\* session's controller, not aborted.
C19_FlagIffLiveSession ==
    /\ isOAuth2FlowInProgress <=> (\E s \in Sessions : Active(s))
    /\ isOAuth2FlowInProgress =>
          /\ oAuthPopupController # 0
          /\ Active(oAuthPopupController)

\* C20: for every value the dropdown can emit, handleValueChange starts the
\* OAuth login ("sign-in"), opens the API-key dialog ("add-api-key"), opens
\* the user-password dialog ("add-user-password"), or reports the saved
\* credential whose id is the value; no exception leaves the handler.
C20_ValueChangeStep ==
    \A v \in DropdownValues :
        handleValueChange(v) =>
            /\ uncaughtErrors' = uncaughtErrors
            /\ CASE v = "sign-in" ->
                       /\ nSessions' = nSessions + 1
                       /\ phase'[nSessions'] = "awaitingLoginUrl"
                 [] v = "add-api-key" -> isAPICredentialsModalOpen'
                 [] v = "add-user-password" -> isUserPasswordCredentialsModalOpen'
                 [] OTHER ->
                       \E c \in credentials.savedCredentials :
                           /\ c.id = v
                           /\ lastSelected' = [id |-> c.id, type |-> c.type,
                                               provider |-> provider]

\* C20: every step satisfies C20_ValueChangeStep
C20_EveryValueHandled == [][C20_ValueChangeStep]_vars

\* neither selection effect has anything left to do
Quiescent == ~ENABLED DeselectIfMissing /\ ~ENABLED AutoSelectSingle

\* the selection is undefined or the id of a saved credential, and it is
\* defined when exactly one credential is saved
SelectionSettled ==
    /\ \/ selectedCredentials = NoSelection
       \/ selectedCredentials.id \in {c.id : c \in credentials.savedCredentials}
    /\ Cardinality(credentials.savedCredentials) = 1 =>
           selectedCredentials # NoSelection

\* C21: whenever the two selection effects are quiescent the selection is
\* undefined or the id of a saved credential, and is defined when exactly one
\* credential is saved; and the effects do not alternate forever: once the
\* inputs stop they stay quiescent, also after an OAuth login reported a new
\* credential.
C21_SelectionEffectsSettle ==
    /\ [](Quiescent => SelectionSettled)
    /\ <>[]Quiescent

\* an OAuth login reported a credential, exactly one credential is saved,
\* and the effects have settled on it: the selection has the shape only the
\* auto-select effect produces
C21_Witness ==
    /\ \E s \in Sessions : Has(s, "credential")
    /\ credentials.savedCredentials = {[id |-> "cred1", type |-> "oauth2"]}
    /\ selectedCredentials = [id |-> "cred1", type |-> "oauth2"]
    /\ Quiescent

====
